---- MODULE Spec2Model ----
(***************************************************************************)
(* Office gadget inventory: the tRPC handlers over the five PostgreSQL     *)
(* tables (tasks, products, inventory, customers, notifications) and the   *)
(* notification side effects of the entity mutations.                      *)
(*                                                                         *)
(* One action per handler call.  The database tables are sets of rows, a   *)
(* serial column is a per-table counter, and the clock reading of a call   *)
(* is an input of the action (it never runs backwards).                    *)
(***************************************************************************)
EXTENDS Integers, FiniteSets, Sequences, TLC

VARIABLES tasks, products, inventory, customers, notifications, serial, now, last, inflight

vars == <<tasks, products, inventory, customers, notifications, serial, now, last, inflight>>

-----------------------------------------------------------------------------
(* Bounds of the model *)

MaxInserts == 3
MaxTime == 1

-----------------------------------------------------------------------------
(* Values *)

\* SQL NULL / JS null of a text or enum column
NULL == "NULL"
\* SQL NULL / JS null of an integer or timestamp column
NULL_INT == 0 - 1
\* JS undefined: the value of an input field that was omitted
UNDEFINED == "undefined"

taskStatusEnum == {"pending", "in_progress", "completed", "cancelled"}
taskPriorityEnum == {"low", "medium", "high", "urgent"}
customerStatusEnum == {"active", "inactive", "pending"}
notificationTypeEnum == {"info", "warning", "error", "success"}
entityTypeEnum == {"task", "product", "inventory", "customer"}

\* An update object that never takes the field from the input
Patch_keepsOld(input, f, old) == old

\* input.f !== undefined
Has(input, f) == f \in DOMAIN input
\* input.f of a text field, undefined when omitted
Field(input, f) == IF f \in DOMAIN input THEN input[f] ELSE UNDEFINED
\* `if (input.f !== undefined) updateData.f = input.f` followed by SET
Patch(input, f, old) == IF f \in DOMAIN input THEN input[f] ELSE old

\* eq(column, value) in a WHERE clause: NULL never matches
eq(column, value) == column # NULL /\ column = value
eqInt(column, value) == column # NULL_INT /\ column = value

Ids(table) == {r.id : r \in table}
RowsById(table, id) == {r \in table : r.id = id}
TheRow(rows) == CHOOSE r \in rows : TRUE

\* The next value of a serial id column
NextId(name) == serial[name]
Bump(names) == [n \in DOMAIN serial |-> IF n \in names THEN serial[n] + 1 ELSE serial[n]]

\* The read column declared with default(true)
notificationRow_readByDefault(values, t) ==
    [id |-> NextId("notifications"),
     title |-> values.title,
     message |-> values.message,
     type |-> values.type,
     read |-> IF "read" \in DOMAIN values THEN values.read ELSE TRUE,
     entity_type |-> values.entity_type,
     entity_id |-> values.entity_id,
     created_at |-> t]

\* INSERT INTO notifications: id from the serial, read and created_at from the
\* column defaults unless given
notificationRow(values, t) ==
    [id |-> NextId("notifications"),
     title |-> values.title,
     message |-> values.message,
     type |-> values.type,
     read |-> IF "read" \in DOMAIN values THEN values.read ELSE FALSE,
     entity_type |-> values.entity_type,
     entity_id |-> values.entity_id,
     created_at |-> t]

\* All orders of `rows` that ORDER BY created_at DESC may return
Perms(rows) ==
    {s \in [1..Cardinality(rows) -> rows] :
        \A i, j \in 1..Cardinality(rows) : i # j => s[i] # s[j]}
orderByCreatedAtDesc(rows) ==
    {s \in Perms(rows) :
        \A i, j \in 1..Cardinality(rows) : i < j => s[i].created_at >= s[j].created_at}

-----------------------------------------------------------------------------
(* Requests that the server handles at the same time.  A request that is  *)
(* between two awaited statements of its handler holds the handler's name, *)
(* its input, the number of statements run, the rows of its first select   *)
(* (local) and the rows its last write returned (result).                  *)

Requests == {1, 2}

NoCall == [op |-> "none", input |-> NULL, pc |-> 0, local |-> {}, result |-> {}]

-----------------------------------------------------------------------------
(* Initial state: empty tables, serials at 1, no request in flight *)

Init ==
    /\ tasks = {}
    /\ products = {}
    /\ inventory = {}
    /\ customers = {}
    /\ notifications = {}
    /\ serial = [tasks |-> 1, products |-> 1, inventory |-> 1, customers |-> 1,
                 notifications |-> 1]
    /\ now = 0
    /\ last = [op |-> "none", input |-> NULL, result |-> "ok", ret |-> NULL]
    /\ inflight = [r \in Requests |-> NoCall]

Call(op, input, result, ret) == [op |-> op, input |-> input, result |-> result, ret |-> ret]

-----------------------------------------------------------------------------
(* Task handlers *)

\* The rule without its second disjunct
createTaskNotifies_highOnly(task) == task.priority = "high"

\* createTask: the condition of the notification
createTaskNotifies(task) == task.priority = "high" \/ task.priority = "urgent"

createTaskNotification(task) ==
    [title |-> <<"New ", task.priority, " priority task created">>,
     message |-> <<"Task \"", task.title, "\" has been created with ", task.priority, " priority">>,
     type |-> "info",
     entity_type |-> "task",
     entity_id |-> task.id]

\* An urgent task is announced twice: once by the rule for high-priority
\* tasks and once more by a rule of its own
createTaskNotifications_twice(task, t) ==
    IF createTaskNotifies(task)
    THEN {notificationRow(createTaskNotification(task), t)}
         \cup (IF task.priority = "urgent"
               THEN {[notificationRow(createTaskNotification(task), t)
                        EXCEPT !.id = NextId("notifications") + 1]}
               ELSE {})
    ELSE {}

\* createTask: the notification rows the call inserts
createTaskNotifications(task, t) ==
    IF createTaskNotifies(task)
    THEN {notificationRow(createTaskNotification(task), t)}
    ELSE {}

createTask(input, t) ==
    /\ now' = t
    /\ UNCHANGED inflight
    /\ LET task == [id |-> NextId("tasks"),
                    title |-> input.title,
                    description |-> input.description,
                    status |-> input.status,
                    priority |-> input.priority,
                    due_date |-> input.due_date,
                    created_at |-> t,
                    updated_at |-> t]
           inserted == createTaskNotifications(task, t)
       IN /\ tasks' = tasks \cup {task}
          /\ notifications' = notifications \cup inserted
          /\ serial' = [serial EXCEPT !["tasks"] = @ + 1,
                                      !["notifications"] = @ + Cardinality(inserted)]
          /\ last' = Call("createTask", input, "ok", task)
    /\ UNCHANGED <<products, inventory, customers>>

\* The rule without the look at the stored status
updateTaskNotifies_anyCompleted(input, currentTask) ==
    Field(input, "status") = "completed"

\* updateTask: the condition of the notification
updateTaskNotifies(input, currentTask) ==
    Field(input, "status") = "completed" /\ currentTask.status # "completed"

updateTaskNotification(updatedTask) ==
    [title |-> <<"Task Completed">>,
     message |-> <<"Task \"", updatedTask.title, "\" has been marked as completed">>,
     type |-> "success",
     entity_type |-> "task",
     entity_id |-> updatedTask.id]

\* The rule is evaluated on the input before the task is looked up
updateTaskNotFound_ruleFirst(input, t) ==
    /\ last' = Call("updateTask", input, "not_found", NULL)
    /\ IF Field(input, "status") = "completed"
       THEN /\ notifications' = notifications \cup
                    {notificationRow(updateTaskNotification(
                        [id |-> input.id, title |-> Field(input, "title")]), t)}
            /\ serial' = Bump({"notifications"})
       ELSE UNCHANGED <<notifications, serial>>
    /\ UNCHANGED tasks

\* updateTask: no task has the id, the handler throws before any write
updateTaskNotFound(input, t) ==
    /\ last' = Call("updateTask", input, "not_found", NULL)
    /\ UNCHANGED <<tasks, notifications, serial>>

\* updateTask: the row after its UPDATE ... SET updateData
updateTaskRow(input, currentTask, t) ==
    [id |-> currentTask.id,
     title |-> Patch(input, "title", currentTask.title),
     description |-> Patch(input, "description", currentTask.description),
     status |-> Patch(input, "status", currentTask.status),
     priority |-> Patch(input, "priority", currentTask.priority),
     due_date |-> Patch(input, "due_date", currentTask.due_date),
     created_at |-> currentTask.created_at,
     updated_at |-> t]

updateTask(input, t) ==
    /\ now' = t
    /\ UNCHANGED inflight
    /\ LET existingTasks == RowsById(tasks, input.id)
       IN IF existingTasks = {}
          THEN updateTaskNotFound(input, t)
          ELSE LET currentTask == TheRow(existingTasks)
                   updatedTask == updateTaskRow(input, currentTask, t)
               IN /\ tasks' = (tasks \ existingTasks) \cup {updatedTask}
                  /\ IF updateTaskNotifies(input, currentTask)
                     THEN /\ notifications' = notifications \cup
                                {notificationRow(updateTaskNotification(updatedTask), t)}
                          /\ serial' = Bump({"notifications"})
                     ELSE UNCHANGED <<notifications, serial>>
                  /\ last' = Call("updateTask", input, "ok", updatedTask)
    /\ UNCHANGED <<products, inventory, customers>>

\* deleteTask: the WHERE clause of the notification delete
deleteTaskNotificationWhere(n, input) ==
    eq(n.entity_type, "task") /\ eqInt(n.entity_id, input.id)

deleteTask(input, t) ==
    /\ now' = t
    /\ UNCHANGED inflight
    /\ notifications' = {n \in notifications : ~deleteTaskNotificationWhere(n, input)}
    /\ tasks' = {r \in tasks : r.id # input.id}
    /\ last' = Call("deleteTask", input, "ok", NULL)
    /\ UNCHANGED <<products, inventory, customers, serial>>

getTaskById(id) ==
    /\ LET results == RowsById(tasks, id)
       IN last' = Call("getTaskById", id, "ok",
                       IF results = {} THEN NULL ELSE TheRow(results))
    /\ UNCHANGED <<tasks, products, inventory, customers, notifications, serial, now, inflight>>

\* getTasks as the router calls it, without filters
getTasks ==
    /\ \E results \in orderByCreatedAtDesc(tasks) : last' = Call("getTasks", NULL, "ok", results)
    /\ UNCHANGED <<tasks, products, inventory, customers, notifications, serial, now, inflight>>

-----------------------------------------------------------------------------
(* Product handlers *)

\* input.price.toString() stored in numeric(10, 2): prices are counted in
\* thousandths, the column keeps hundredths and rounds half away from zero
numericColumn(price) == (price + 5) \div 10
\* parseFloat(product.price): hundredths back to thousandths
parseFloat(stored) == stored * 10

productResult(product) == [product EXCEPT !.price = parseFloat(product.price)]

\* The check compares the new sku with the stored names
existingProduct_byName(input) == {p \in products : eq(p.name, input.sku)}

\* createProduct: the stored products that hold the sku of the input
existingProduct(input) == {p \in products : eq(p.sku, input.sku)}

\* createProduct: the row its INSERT stores
insertedProduct(input, t) ==
    [id |-> NextId("products"),
     name |-> input.name,
     description |-> input.description,
     price |-> numericColumn(input.price),
     sku |-> input.sku,
     category |-> input.category,
     created_at |-> t,
     updated_at |-> t]

createProduct(input, t) ==
    /\ now' = t
    /\ UNCHANGED inflight
    /\ IF existingProduct(input) # {}
       THEN /\ last' = Call("createProduct", input, "conflict", NULL)
            /\ UNCHANGED <<products, serial>>
       ELSE LET product == insertedProduct(input, t)
            IN /\ products' = products \cup {product}
               /\ serial' = Bump({"products"})
               /\ last' = Call("createProduct", input, "ok", productResult(product))
    /\ UNCHANGED <<tasks, inventory, customers, notifications>>

\* updateProduct: the other products that hold the sku of the input
skuConflicts(input) ==
    {p \in products : eq(p.sku, Field(input, "sku")) /\ p.id # input.id}

\* updateProduct: the row after its UPDATE ... SET updateData
updateProductRow(input, current, t) ==
    [id |-> current.id,
     name |-> Patch(input, "name", current.name),
     description |-> Patch(input, "description", current.description),
     price |-> IF Has(input, "price") THEN numericColumn(input.price)
               ELSE current.price,
     sku |-> Patch(input, "sku", current.sku),
     category |-> Patch(input, "category", current.category),
     created_at |-> current.created_at,
     updated_at |-> t]

updateProduct(input, t) ==
    /\ now' = t
    /\ UNCHANGED inflight
    /\ LET existingProducts == RowsById(products, input.id)
       IN IF existingProducts = {}
          THEN /\ last' = Call("updateProduct", input, "not_found", NULL)
               /\ UNCHANGED products
          ELSE IF Has(input, "sku") /\ input.sku # "" /\ skuConflicts(input) # {}
          THEN /\ last' = Call("updateProduct", input, "conflict", NULL)
               /\ UNCHANGED products
          ELSE LET current == TheRow(existingProducts)
                   product == updateProductRow(input, current, t)
               IN /\ products' = (products \ existingProducts) \cup {product}
                  /\ last' = Call("updateProduct", input, "ok", productResult(product))
    /\ UNCHANGED <<tasks, inventory, customers, notifications, serial>>

\* deleteProduct: the WHERE clause of the notification delete
deleteProductNotificationWhere(n, input) == eqInt(n.entity_id, input.id)

\* The WHERE clause that compares the row's own id
deleteProductInventoryWhere_byId(i, input) == eqInt(i.id, input.id)

\* deleteProduct: the WHERE clause of the inventory delete
deleteProductInventoryWhere(i, input) == eqInt(i.product_id, input.id)

deleteProduct(input, t) ==
    /\ now' = t
    /\ UNCHANGED inflight
    /\ inventory' = {i \in inventory : ~deleteProductInventoryWhere(i, input)}
    /\ notifications' = {n \in notifications : ~deleteProductNotificationWhere(n, input)}
    /\ products' = {p \in products : p.id # input.id}
    /\ last' = Call("deleteProduct", input, "ok", NULL)
    /\ UNCHANGED <<tasks, customers, serial>>

\* The result of getProductById
getProductByIdResult(id) ==
    LET result == RowsById(products, id)
    IN IF result = {} THEN NULL ELSE productResult(TheRow(result))

getProductById(id) ==
    /\ last' = Call("getProductById", id, "ok", getProductByIdResult(id))
    /\ UNCHANGED <<tasks, products, inventory, customers, notifications, serial, now, inflight>>

\* getProducts as the router calls it, without filters
getProducts ==
    /\ last' = Call("getProducts", NULL, "ok", {productResult(p) : p \in products})
    /\ UNCHANGED <<tasks, products, inventory, customers, notifications, serial, now, inflight>>

-----------------------------------------------------------------------------
(* Inventory handlers *)

\* createInventory: the condition of the notification
createInventoryNotifies(input) == input.quantity < input.min_stock_level

\* The message with the placeholder in place of the product's name
createInventoryNotification_placeholder(input, product, inv) ==
    [title |-> <<"Low Stock Alert">>,
     message |-> <<"Product \"", "Unknown Product", "\" (SKU: ", product.sku, ") has quantity ",
                   input.quantity, " which is below minimum stock level of ",
                   input.min_stock_level, ".">>,
     type |-> "warning",
     entity_type |-> "inventory",
     entity_id |-> inv.id]

\* createInventory: the values of the notification
createInventoryNotification(input, product, inv) ==
    [title |-> <<"Low Stock Alert">>,
     message |-> <<"Product \"", product.name, "\" (SKU: ", product.sku, ") has quantity ",
                   input.quantity, " which is below minimum stock level of ",
                   input.min_stock_level, ".">>,
     type |-> "warning",
     entity_type |-> "inventory",
     entity_id |-> inv.id]

\* The row is inserted without a look at the products, and the alert of a
\* low row names the placeholder
createInventoryNoProduct_inserts(input, t) ==
    LET inv == [id |-> NextId("inventory"),
                product_id |-> input.product_id,
                quantity |-> input.quantity,
                min_stock_level |-> input.min_stock_level,
                max_stock_level |-> input.max_stock_level,
                location |-> input.location,
                last_updated |-> t]
    IN /\ inventory' = inventory \cup {inv}
       /\ IF createInventoryNotifies(input)
          THEN /\ notifications' = notifications \cup
                    {notificationRow(createInventoryNotification_placeholder(
                        input, [sku |-> UNDEFINED], inv), t)}
               /\ serial' = Bump({"inventory", "notifications"})
          ELSE /\ notifications' = notifications
               /\ serial' = Bump({"inventory"})
       /\ last' = Call("createInventory", input, "ok", inv)

\* createInventory: no product has the id, the handler throws before any write
createInventoryNoProduct(input, t) ==
    /\ last' = Call("createInventory", input, "error", NULL)
    /\ UNCHANGED <<inventory, notifications, serial>>

createInventory(input, t) ==
    /\ now' = t
    /\ UNCHANGED inflight
    /\ LET product == RowsById(products, input.product_id)
       IN IF product = {}
          THEN createInventoryNoProduct(input, t)
          ELSE LET inv == [id |-> NextId("inventory"),
                           product_id |-> input.product_id,
                           quantity |-> input.quantity,
                           min_stock_level |-> input.min_stock_level,
                           max_stock_level |-> input.max_stock_level,
                           location |-> input.location,
                           last_updated |-> t]
               IN /\ inventory' = inventory \cup {inv}
                  /\ IF createInventoryNotifies(input)
                     THEN /\ notifications' = notifications \cup
                                {notificationRow(
                                    createInventoryNotification(input, TheRow(product), inv), t)}
                          /\ serial' = Bump({"inventory", "notifications"})
                     ELSE /\ notifications' = notifications
                          /\ serial' = Bump({"inventory"})
                  /\ last' = Call("createInventory", input, "ok", inv)
    /\ UNCHANGED <<tasks, products, customers>>

\* updateInventory: the merged values the low-stock check reads
finalQuantity(input, current) ==
    IF Has(input, "quantity") THEN input.quantity ELSE current.quantity
\* The stored minimum, whatever the input supplies
finalMinStockLevel_stored(input, current) == current.min_stock_level

finalMinStockLevel(input, current) ==
    IF Has(input, "min_stock_level") THEN input.min_stock_level ELSE current.min_stock_level
\* updateInventory: the condition of the notification
updateInventoryNotifies(input, current) ==
    finalQuantity(input, current) < finalMinStockLevel(input, current)

\* productResult[0]?.name inside the template literal, without a fallback
productName_undefined(productResult_) ==
    IF productResult_ # {} THEN TheRow(productResult_).name ELSE UNDEFINED

\* updateInventory: the product name of the alert
productName(productResult_) ==
    IF productResult_ # {} THEN TheRow(productResult_).name ELSE "Unknown Product"

updateInventoryNotification(input, current, updatedInventory) ==
    [title |-> <<"Low Stock Alert">>,
     message |-> <<productName(RowsById(products, updatedInventory.product_id)),
                   " inventory is below minimum stock level. Current: ",
                   finalQuantity(input, current), ", Minimum: ",
                   finalMinStockLevel(input, current)>>,
     type |-> "warning",
     entity_type |-> "inventory",
     entity_id |-> updatedInventory.id]

updateInventory(input, t) ==
    /\ now' = t
    /\ UNCHANGED inflight
    /\ LET currentInventory == RowsById(inventory, input.id)
       IN IF currentInventory = {}
          THEN /\ last' = Call("updateInventory", input, "not_found", NULL)
               /\ UNCHANGED <<inventory, notifications, serial>>
          ELSE LET current == TheRow(currentInventory)
                   updatedInventory ==
                       [id |-> current.id,
                        product_id |-> Patch(input, "product_id", current.product_id),
                        quantity |-> Patch(input, "quantity", current.quantity),
                        min_stock_level |-> Patch(input, "min_stock_level", current.min_stock_level),
                        max_stock_level |-> Patch(input, "max_stock_level", current.max_stock_level),
                        location |-> Patch(input, "location", current.location),
                        last_updated |-> t]
               IN /\ inventory' = (inventory \ currentInventory) \cup {updatedInventory}
                  /\ IF updateInventoryNotifies(input, current)
                     THEN /\ notifications' = notifications \cup
                                {notificationRow(
                                    updateInventoryNotification(input, current, updatedInventory), t)}
                          /\ serial' = Bump({"notifications"})
                     ELSE UNCHANGED <<notifications, serial>>
                  /\ last' = Call("updateInventory", input, "ok", updatedInventory)
    /\ UNCHANGED <<tasks, products, customers>>

\* The WHERE clause with the entity type of another handler
deleteInventoryNotificationWhere_product(n, input) ==
    eq(n.entity_type, "product") /\ eqInt(n.entity_id, input.id)

\* deleteInventory: the WHERE clause of the notification delete
deleteInventoryNotificationWhere(n, input) ==
    eq(n.entity_type, "inventory") /\ eqInt(n.entity_id, input.id)

deleteInventory(input, t) ==
    /\ now' = t
    /\ UNCHANGED inflight
    /\ inventory' = {i \in inventory : i.id # input.id}
    /\ notifications' = {n \in notifications : ~deleteInventoryNotificationWhere(n, input)}
    /\ last' = Call("deleteInventory", input, "ok", NULL)
    /\ UNCHANGED <<tasks, products, customers, serial>>

\* inventory INNER JOIN products ON inventory.product_id = products.id
inventoryJoinProducts ==
    {<<i, p>> \in inventory \X products : eqInt(i.product_id, p.id)}

\* getInventoryById: the rows its query selects
getInventoryByIdResults(id) == {r \in inventoryJoinProducts : r[1].id = id}

getInventoryById(id) ==
    /\ LET results == getInventoryByIdResults(id)
       IN last' = Call("getInventoryById", id, "ok",
                       IF results = {} THEN NULL ELSE TheRow(results)[1])
    /\ UNCHANGED <<tasks, products, inventory, customers, notifications, serial, now, inflight>>

\* lte(inventory.quantity, inventory.min_stock_level)
lowStock(i) == i.quantity <= i.min_stock_level

getInventory(filters) ==
    /\ LET results ==
            {r \in inventoryJoinProducts :
                /\ (Has(filters, "location") /\ filters.location # "")
                        => eq(r[1].location, filters.location)
                /\ (Has(filters, "lowStockOnly") /\ filters.lowStockOnly)
                        => lowStock(r[1])}
       IN last' = Call("getInventory", filters, "ok",
                       {[id |-> r[1].id,
                         product_id |-> r[1].product_id,
                         quantity |-> r[1].quantity,
                         min_stock_level |-> r[1].min_stock_level,
                         max_stock_level |-> r[1].max_stock_level,
                         location |-> r[1].location,
                         last_updated |-> r[1].last_updated,
                         product_name |-> r[2].name,
                         product_sku |-> r[2].sku,
                         product_category |-> r[2].category] : r \in results})
    /\ UNCHANGED <<tasks, products, inventory, customers, notifications, serial, now, inflight>>

-----------------------------------------------------------------------------
(* Customer handlers *)

\* The check takes an email as used only within the same company
existingCustomer_sameCompany(input) ==
    {c \in customers : eq(c.email, input.email) /\ eq(c.company, input.company)}

\* createCustomer: the stored customers that hold the email of the input
existingCustomer(input) == {c \in customers : eq(c.email, input.email)}

\* createCustomer: the row its INSERT stores
insertedCustomer(input, t) ==
    [id |-> NextId("customers"),
     name |-> input.name,
     email |-> input.email,
     phone |-> input.phone,
     address |-> input.address,
     company |-> input.company,
     status |-> input.status,
     created_at |-> t,
     updated_at |-> t]

createCustomer(input, t) ==
    /\ now' = t
    /\ UNCHANGED inflight
    /\ IF existingCustomer(input) # {}
       THEN /\ last' = Call("createCustomer", input, "conflict", NULL)
            /\ UNCHANGED <<customers, serial>>
       ELSE LET customer == insertedCustomer(input, t)
            IN /\ customers' = customers \cup {customer}
               /\ serial' = Bump({"customers"})
               /\ last' = Call("createCustomer", input, "ok", customer)
    /\ UNCHANGED <<tasks, products, inventory, notifications>>

\* The query without ne(customersTable.id, input.id)
emailConflicts_anyCustomer(input) ==
    {c \in customers : eq(c.email, Field(input, "email"))}

\* updateCustomer: the other customers that hold the email of the input
emailConflicts(input) ==
    {c \in customers : eq(c.email, Field(input, "email")) /\ c.id # input.id}

\* updateCustomer: the row after its UPDATE ... SET updateData
updateCustomerRow(input, current, t) ==
    [id |-> current.id,
     name |-> Patch(input, "name", current.name),
     email |-> Patch(input, "email", current.email),
     phone |-> Patch(input, "phone", current.phone),
     address |-> Patch(input, "address", current.address),
     company |-> Patch(input, "company", current.company),
     status |-> Patch(input, "status", current.status),
     created_at |-> current.created_at,
     updated_at |-> t]

updateCustomer(input, t) ==
    /\ now' = t
    /\ UNCHANGED inflight
    /\ LET existingCustomers == RowsById(customers, input.id)
       IN IF existingCustomers = {}
          THEN /\ last' = Call("updateCustomer", input, "not_found", NULL)
               /\ UNCHANGED customers
          ELSE IF Has(input, "email") /\ emailConflicts(input) # {}
          THEN /\ last' = Call("updateCustomer", input, "conflict", NULL)
               /\ UNCHANGED customers
          ELSE LET current == TheRow(existingCustomers)
                   customer == updateCustomerRow(input, current, t)
               IN /\ customers' = (customers \ existingCustomers) \cup {customer}
                  /\ last' = Call("updateCustomer", input, "ok", customer)
    /\ UNCHANGED <<tasks, products, inventory, notifications, serial>>

\* deleteCustomer: the WHERE clause of the notification delete
deleteCustomerNotificationWhere(n, input) ==
    eq(n.entity_type, "customer") /\ eqInt(n.entity_id, input.id)

deleteCustomer(input, t) ==
    /\ now' = t
    /\ UNCHANGED inflight
    /\ notifications' = {n \in notifications : ~deleteCustomerNotificationWhere(n, input)}
    /\ customers' = {c \in customers : c.id # input.id}
    /\ last' = Call("deleteCustomer", input, "ok", NULL)
    /\ UNCHANGED <<tasks, products, inventory, serial>>

getCustomerById(id) ==
    /\ LET results == RowsById(customers, id)
       IN last' = Call("getCustomerById", id, "ok",
                       IF results = {} THEN NULL ELSE TheRow(results))
    /\ UNCHANGED <<tasks, products, inventory, customers, notifications, serial, now, inflight>>

\* getCustomers as the router calls it, without filters
getCustomers ==
    /\ last' = Call("getCustomers", NULL, "ok", customers)
    /\ UNCHANGED <<tasks, products, inventory, customers, notifications, serial, now, inflight>>

-----------------------------------------------------------------------------
(* Notification handlers *)

createNotification(input, t) ==
    /\ now' = t
    /\ UNCHANGED inflight
    /\ LET notification ==
            notificationRow([title |-> input.title,
                             message |-> input.message,
                             type |-> input.type,
                             entity_type |-> input.entity_type,
                             entity_id |-> input.entity_id,
                             read |-> FALSE], t)
       IN /\ notifications' = notifications \cup {notification}
          /\ serial' = Bump({"notifications"})
          /\ last' = Call("createNotification", input, "ok", notification)
    /\ UNCHANGED <<tasks, products, inventory, customers>>

\* The possible results of getNotifications
getNotificationsResults == orderByCreatedAtDesc(notifications)

getNotifications ==
    /\ \E results \in getNotificationsResults :
            last' = Call("getNotifications", NULL, "ok", results)
    /\ UNCHANGED <<tasks, products, inventory, customers, notifications, serial, now, inflight>>

\* The count without its WHERE clause
unreadCountQuery_all == <<[count |-> Cardinality(notifications)]>>

\* SELECT count(*) FROM notifications WHERE read = false
unreadCountQuery == <<[count |-> Cardinality({n \in notifications : n.read = FALSE})]>>

\* The result of getUnreadNotificationsCount: result[0]?.count || 0
getUnreadNotificationsCountResult ==
    LET result == unreadCountQuery
    IN IF Len(result) = 0 \/ result[1].count = 0 THEN 0 ELSE result[1].count

getUnreadNotificationsCount ==
    /\ last' = Call("getUnreadNotificationsCount", NULL, "ok",
                    getUnreadNotificationsCountResult)
    /\ UNCHANGED <<tasks, products, inventory, customers, notifications, serial, now, inflight>>

\* The placeholder declaration of the handler: it answers with a made-up
\* notification and never reaches the table
markNotificationRead_placeholder(input, t) ==
    /\ now' = t
    /\ UNCHANGED inflight
    /\ last' = Call("markNotificationRead", input, "ok",
                    [id |-> input.id,
                     title |-> <<"Sample Notification">>,
                     message |-> <<"This notification has been marked as read">>,
                     type |-> "info",
                     read |-> TRUE,
                     entity_type |-> NULL,
                     entity_id |-> NULL_INT,
                     created_at |-> t])
    /\ UNCHANGED <<tasks, products, inventory, customers, notifications, serial>>

\* An UPDATE that matches no row, taken for a success
markNotificationRead_silent(input, t) ==
    /\ now' = t
    /\ UNCHANGED inflight
    /\ LET found == RowsById(notifications, input.id)
           updated == {[n EXCEPT !.read = TRUE] : n \in found}
       IN /\ notifications' = (notifications \ found) \cup updated
          /\ last' = Call("markNotificationRead", input, "ok",
                          IF updated = {} THEN NULL ELSE TheRow(updated))
    /\ UNCHANGED <<tasks, products, inventory, customers, serial>>

\* markRead(id): sets read = true, NotFoundError if the id is absent
markNotificationRead(input, t) ==
    /\ now' = t
    /\ UNCHANGED inflight
    /\ LET found == RowsById(notifications, input.id)
       IN IF found = {}
          THEN /\ last' = Call("markNotificationRead", input, "not_found", NULL)
               /\ UNCHANGED notifications
          ELSE LET updated == [TheRow(found) EXCEPT !.read = TRUE]
               IN /\ notifications' = (notifications \ found) \cup {updated}
                  /\ last' = Call("markNotificationRead", input, "ok", updated)
    /\ UNCHANGED <<tasks, products, inventory, customers, serial>>

\* SET read = NOT read
markAllNotificationsReadSet_toggle(n) == [n EXCEPT !.read = ~n.read]

\* SET read = true, created_at = new Date()
markAllNotificationsReadSet_stamped(n) == [n EXCEPT !.read = TRUE, !.created_at = now']

\* UPDATE notifications SET read = true, without a WHERE clause
markAllNotificationsReadSet(n) == [n EXCEPT !.read = TRUE]

markAllNotificationsRead(t) ==
    /\ now' = t
    /\ UNCHANGED inflight
    /\ notifications' = {markAllNotificationsReadSet(n) : n \in notifications}
    /\ last' = Call("markAllNotificationsRead", NULL, "ok", NULL)
    /\ UNCHANGED <<tasks, products, inventory, customers, serial>>

-----------------------------------------------------------------------------
(* Inputs of the handler calls, as the zod schemas admit them *)

Times(max) == now..max

DeleteInputs(max) == [id : 1..max]

CreateTaskInputs(statuses, priorities) ==
    [title : {"A"}, description : {NULL}, status : statuses,
     priority : priorities, due_date : {NULL_INT}]

UpdateTaskInputs(max, statuses) ==
    [id : 1..max] \cup [id : 1..max, status : statuses]

CreateProductInputs(skus) ==
    [name : {"P"}, description : {NULL}, price : {1990}, sku : skus, category : {NULL}]

UpdateProductInputs(max, skus) ==
    [id : 1..max] \cup [id : 1..max, sku : skus]

CreateInventoryInputs(max, quantities) ==
    [product_id : 1..max, quantity : quantities, min_stock_level : quantities,
     max_stock_level : {5}, location : {NULL}]

\* Rows that start below their minimum
LowInventoryInputs(max) ==
    [product_id : 1..max, quantity : {0}, min_stock_level : {1},
     max_stock_level : {5}, location : {NULL}]

\* Updates that move the row to another product
MoveInventoryInputs(max, productIds, quantities) ==
    [id : 1..max, product_id : productIds]
    \cup [id : 1..max, product_id : productIds, quantity : quantities]

UpdateInventoryInputs(max, quantities) ==
    [id : 1..max]
    \cup [id : 1..max, quantity : quantities]
    \cup [id : 1..max, min_stock_level : quantities]
    \cup [id : 1..max, quantity : quantities, min_stock_level : quantities]

CreateCustomerInputs(emails) ==
    [name : {"C"}, email : emails, phone : {NULL}, address : {NULL}, company : {NULL},
     status : {"active"}]

UpdateCustomerInputs(max, emails) ==
    [id : 1..max] \cup [id : 1..max, email : emails]

\* Creates that fill the nullable columns
FilledTaskInputs ==
    [title : {"A"}, description : {"D"}, status : {"pending"},
     priority : {"low"}, due_date : {1}]

FilledProductInputs(skus) ==
    [name : {"P"}, description : {"D"}, price : {1990}, sku : skus, category : {"K"}]

FilledInventoryInputs(max) ==
    [product_id : 1..max, quantity : {1}, min_stock_level : {0},
     max_stock_level : {5}, location : {"L"}]

FilledCustomerInputs(emails) ==
    [name : {"C"}, email : emails, phone : {"1"}, address : {NULL}, company : {"Co"},
     status : {"active"}]

\* Updates that omit a field, supply it as null, or supply a value
PatchTaskInputs(max) ==
    [id : 1..max]
    \cup [id : 1..max, description : {NULL}]
    \cup [id : 1..max, title : {"B"}, due_date : {NULL_INT}]

PatchProductInputs(max) ==
    [id : 1..max]
    \cup [id : 1..max, description : {NULL}]
    \cup [id : 1..max, price : {1995}, category : {NULL}]

PatchInventoryInputs(max) ==
    [id : 1..max]
    \cup [id : 1..max, location : {NULL}]

PatchCustomerInputs(max) ==
    [id : 1..max]
    \cup [id : 1..max, phone : {NULL}, status : {"inactive"}]

CreateNotificationInputs(types, entityTypes, entityIds) ==
    [title : {<<"N">>}, message : {<<"M">>}, type : types,
     entity_type : entityTypes, entity_id : entityIds]

-----------------------------------------------------------------------------
(* Every handler of the router, one call at a time.  Ids are drawn from    *)
(* the ids a table has issued so far and the next one, which no row has.   *)

IssuedIds(name) == 1..NextId(name)

\* The number of rows inserted so far, over all tables
Inserts ==
    serial["tasks"] + serial["products"] + serial["inventory"] + serial["customers"]
        + serial["notifications"] - 5

\* The call leaves the number of inserted rows within the bound
WithinBudget == Inserts' <= MaxInserts

\* All sequential calls within one reading of the clock
Calls ==
    \/ \E input \in CreateTaskInputs({"pending"}, {"low", "urgent"}) : createTask(input, now) /\ WithinBudget
    \/ \E input \in UpdateTaskInputs(NextId("tasks"), {"pending", "completed"}) :
            updateTask(input, now) /\ WithinBudget
    \/ \E input \in DeleteInputs(NextId("tasks")) : deleteTask(input, now)
    \/ \E id \in IssuedIds("tasks") : getTaskById(id)
    \/ getTasks
    \/ \E input \in CreateProductInputs({"X1"}) : createProduct(input, now) /\ WithinBudget
    \/ \E input \in UpdateProductInputs(NextId("products"), {"X1"}) : updateProduct(input, now)
    \/ \E input \in DeleteInputs(NextId("products")) : deleteProduct(input, now)
    \/ \E id \in IssuedIds("products") : getProductById(id)
    \/ getProducts
    \/ \E input \in CreateInventoryInputs(NextId("products"), {0, 1}) :
            createInventory(input, now) /\ WithinBudget
    \/ \E input \in UpdateInventoryInputs(NextId("inventory"), {0, 1}) :
            updateInventory(input, now) /\ WithinBudget
    \/ \E input \in DeleteInputs(NextId("inventory")) : deleteInventory(input, now)
    \/ \E id \in IssuedIds("inventory") : getInventoryById(id)
    \/ \E filters \in {<<>>} : getInventory(filters)
    \/ \E input \in CreateCustomerInputs({"a@x"}) : createCustomer(input, now) /\ WithinBudget
    \/ \E input \in UpdateCustomerInputs(NextId("customers"), {"a@x"}) :
            updateCustomer(input, now)
    \/ \E input \in DeleteInputs(NextId("customers")) : deleteCustomer(input, now)
    \/ \E id \in IssuedIds("customers") : getCustomerById(id)
    \/ getCustomers
    \/ \E input \in CreateNotificationInputs({"info"}, {"task"}, {1})
                    \cup CreateNotificationInputs({"info"}, {NULL}, {NULL_INT}) :
            createNotification(input, now) /\ WithinBudget
    \/ getNotifications
    \/ getUnreadNotificationsCount
    \/ \E input \in DeleteInputs(NextId("notifications")) : markNotificationRead(input, now)
    \/ markAllNotificationsRead(now)

Next == Calls

Spec == Init /\ [][Next]_vars

-----------------------------------------------------------------------------
(* The task handlers alone, with every priority                           *)

TaskCalls ==
    \/ \E input \in CreateTaskInputs({"pending", "completed"}, taskPriorityEnum) :
            createTask(input, now) /\ WithinBudget
    \/ \E input \in UpdateTaskInputs(NextId("tasks"), {"pending", "in_progress", "completed"}) :
            updateTask(input, now) /\ WithinBudget
    \/ \E input \in DeleteInputs(NextId("tasks")) : deleteTask(input, now)
    \/ \E id \in IssuedIds("tasks") : getTaskById(id)
    \/ getTasks

NextTask == TaskCalls

SpecTask == Init /\ [][NextTask]_vars

-----------------------------------------------------------------------------
(* The product and inventory handlers alone                               *)

InventoryCalls ==
    \/ \E input \in CreateProductInputs({"X1"}) : createProduct(input, now) /\ WithinBudget
    \/ \E input \in DeleteInputs(NextId("products")) : deleteProduct(input, now)
    \/ \E input \in CreateInventoryInputs(NextId("products"), {0, 1}) :
            createInventory(input, now) /\ WithinBudget
    \/ \E input \in UpdateInventoryInputs(NextId("inventory"), {0, 1})
                    \cup MoveInventoryInputs(NextId("inventory"), IssuedIds("products"), {0}) :
            updateInventory(input, now) /\ WithinBudget
    \/ \E input \in DeleteInputs(NextId("inventory")) : deleteInventory(input, now)
    \/ \E id \in IssuedIds("inventory") : getInventoryById(id)
    \/ \E filters \in {<<>>, [lowStockOnly |-> TRUE]} : getInventory(filters)

NextInventory == InventoryCalls

SpecInventory == Init /\ [][NextInventory]_vars

-----------------------------------------------------------------------------
(* The creates and deletes of the four entities, notifications that refer *)
(* to any of them, and updates that move an inventory row to another      *)
(* product id                                                             *)

EntityReferences ==
    CreateNotificationInputs({"info"}, {"task"}, {1, 2})
    \cup CreateNotificationInputs({"info"}, {"product", "inventory", "customer"}, {1})
    \cup CreateNotificationInputs({"info"}, {NULL}, {NULL_INT})
    \cup CreateNotificationInputs({"info"}, {NULL}, {1})
    \cup CreateNotificationInputs({"info"}, {"task"}, {NULL_INT})

CascadeCalls ==
    \/ \E input \in CreateTaskInputs({"pending"}, {"low", "urgent"}) : createTask(input, now) /\ WithinBudget
    \/ \E input \in CreateProductInputs({"X1"}) : createProduct(input, now) /\ WithinBudget
    \/ \E input \in CreateInventoryInputs(NextId("products"), {0, 1}) :
            createInventory(input, now) /\ WithinBudget
    \/ \E input \in MoveInventoryInputs(NextId("inventory"), IssuedIds("products"), {}) :
            updateInventory(input, now) /\ WithinBudget
    \/ \E input \in CreateCustomerInputs({"a@x"}) : createCustomer(input, now) /\ WithinBudget
    \/ \E input \in EntityReferences : createNotification(input, now) /\ WithinBudget
    \/ \E input \in DeleteInputs(NextId("tasks")) : deleteTask(input, now)
    \/ \E input \in DeleteInputs(NextId("products")) : deleteProduct(input, now)
    \/ \E input \in DeleteInputs(NextId("inventory")) : deleteInventory(input, now)
    \/ \E input \in DeleteInputs(NextId("customers")) : deleteCustomer(input, now)

NextCascade == CascadeCalls

SpecCascade == Init /\ [][NextCascade]_vars

-----------------------------------------------------------------------------
(* The notification handlers alone, with a clock that advances between    *)
(* calls                                                                  *)

NotificationCalls ==
    \/ \E t \in Times(MaxTime),
          input \in CreateNotificationInputs({"info"}, {"task"}, {1})
                    \cup CreateNotificationInputs({"info"}, {NULL}, {NULL_INT}) :
            createNotification(input, t) /\ WithinBudget
    \/ getNotifications
    \/ getUnreadNotificationsCount
    \/ \E t \in Times(MaxTime), input \in DeleteInputs(NextId("notifications")) :
            markNotificationRead(input, t)
    \/ \E t \in Times(MaxTime) : markAllNotificationsRead(t)

NextNotification == NotificationCalls

SpecNotification == Init /\ [][NextNotification]_vars

-----------------------------------------------------------------------------
(* Every handler that writes the notifications table, with a clock that   *)
(* advances between the calls of the notification handlers                *)

FeedCalls ==
    \/ \E input \in CreateTaskInputs({"pending"}, {"urgent"}) : createTask(input, now) /\ WithinBudget
    \/ \E input \in UpdateTaskInputs(NextId("tasks"), {"completed"}) :
            updateTask(input, now) /\ WithinBudget
    \/ \E input \in DeleteInputs(NextId("tasks")) : deleteTask(input, now)
    \/ \E input \in CreateProductInputs({"X1"}) : createProduct(input, now) /\ WithinBudget
    \/ \E input \in DeleteInputs(NextId("products")) : deleteProduct(input, now)
    \/ \E input \in LowInventoryInputs(NextId("products")) :
            createInventory(input, now) /\ WithinBudget
    \/ \E input \in UpdateInventoryInputs(NextId("inventory"), {0}) :
            updateInventory(input, now) /\ WithinBudget
    \/ \E input \in DeleteInputs(NextId("inventory")) : deleteInventory(input, now)
    \/ \E input \in DeleteInputs(NextId("customers")) : deleteCustomer(input, now)
    \/ \E t \in Times(MaxTime),
          input \in CreateNotificationInputs({"info"}, {"task"}, {1})
                    \cup CreateNotificationInputs({"info"}, {NULL}, {NULL_INT}) :
            createNotification(input, t) /\ WithinBudget
    \/ \E t \in Times(MaxTime), input \in DeleteInputs(NextId("notifications")) :
            markNotificationRead(input, t)
    \/ \E t \in Times(MaxTime) : markAllNotificationsRead(t)

NextFeed == FeedCalls

SpecFeed == Init /\ [][NextFeed]_vars

-----------------------------------------------------------------------------
(* The product and customer handlers alone, with two skus that differ in  *)
(* case only, two emails, and a clock that advances at the updates        *)

Skus == {"X1", "x1"}
Emails == {"a@x", "b@x"}

UniqueCalls ==
    \/ \E input \in CreateProductInputs(Skus) : createProduct(input, now) /\ WithinBudget
    \/ \E t \in Times(MaxTime), input \in UpdateProductInputs(NextId("products"), Skus) :
            updateProduct(input, t)
    \/ \E input \in DeleteInputs(NextId("products")) : deleteProduct(input, now)
    \/ \E id \in IssuedIds("products") : getProductById(id)
    \/ \E input \in CreateCustomerInputs(Emails) : createCustomer(input, now) /\ WithinBudget
    \/ \E t \in Times(MaxTime), input \in UpdateCustomerInputs(NextId("customers"), Emails) :
            updateCustomer(input, t)
    \/ \E input \in DeleteInputs(NextId("customers")) : deleteCustomer(input, now)
    \/ \E id \in IssuedIds("customers") : getCustomerById(id)

NextUnique == UniqueCalls

SpecUnique == Init /\ [][NextUnique]_vars

-----------------------------------------------------------------------------
(* Creates that fill every column, and updates that omit, null or set     *)
(* fields of stored rows, with a clock that advances at the updates       *)

\* Two rows are enough for an update next to another record
WithinUpdateBudget == Inserts' <= MaxInserts - 1

UpdateCalls ==
    \/ \E input \in FilledTaskInputs : createTask(input, now) /\ WithinUpdateBudget
    \/ \E t \in Times(MaxTime), input \in PatchTaskInputs(NextId("tasks") - 1) :
            updateTask(input, t)
    \/ \E input \in FilledProductInputs({"X1"}) : createProduct(input, now) /\ WithinUpdateBudget
    \/ \E t \in Times(MaxTime), input \in PatchProductInputs(NextId("products") - 1) :
            updateProduct(input, t)
    \/ \E input \in FilledInventoryInputs(NextId("products")) :
            createInventory(input, now) /\ WithinUpdateBudget
    \/ \E t \in Times(MaxTime), input \in PatchInventoryInputs(NextId("inventory") - 1) :
            updateInventory(input, t)
    \/ \E input \in FilledCustomerInputs({"a@x"}) : createCustomer(input, now) /\ WithinUpdateBudget
    \/ \E t \in Times(MaxTime), input \in PatchCustomerInputs(NextId("customers") - 1) :
            updateCustomer(input, t)

NextUpdate == UpdateCalls

SpecUpdate == Init /\ [][NextUpdate]_vars

-----------------------------------------------------------------------------
(* Products with two skus and their inventory rows, without updates that  *)
(* change a product_id and without createNotification; one more insert    *)
(* than elsewhere, for two products with a row and an alert               *)

WithinStockBudget == Inserts' <= MaxInserts + 1

StockCalls ==
    \/ \E input \in CreateProductInputs(Skus) : createProduct(input, now) /\ WithinStockBudget
    \/ \E input \in DeleteInputs(NextId("products")) : deleteProduct(input, now)
    \/ \E input \in CreateInventoryInputs(NextId("products"), {0, 1}) :
            createInventory(input, now) /\ WithinStockBudget
    \/ \E input \in UpdateInventoryInputs(NextId("inventory"), {0}) :
            updateInventory(input, now) /\ WithinStockBudget
    \/ \E input \in DeleteInputs(NextId("inventory")) : deleteInventory(input, now)

NextStock == StockCalls

SpecStock == Init /\ [][NextStock]_vars

-----------------------------------------------------------------------------
(* The deletes one database statement at a time.  A delete that has run    *)
(* some of its statements is the call `last`, with result "pending" and    *)
(* the number of statements run so far; no other call starts before it     *)
(* has returned.                                                           *)

\* deleteTask: the notifications, then the task
deleteTaskStatement(input, k) ==
    CASE k = 1 ->
            /\ notifications' = {n \in notifications : ~deleteTaskNotificationWhere(n, input)}
            /\ UNCHANGED <<tasks, products, inventory, customers, serial>>
      [] k = 2 ->
            /\ tasks' = {r \in tasks : r.id # input.id}
            /\ UNCHANGED <<products, inventory, customers, notifications, serial>>

\* deleteProduct: the inventory rows, the notifications, then the product
deleteProductStatement(input, k) ==
    CASE k = 1 ->
            /\ inventory' = {i \in inventory : ~deleteProductInventoryWhere(i, input)}
            /\ UNCHANGED <<tasks, products, customers, notifications, serial>>
      [] k = 2 ->
            /\ notifications' = {n \in notifications : ~deleteProductNotificationWhere(n, input)}
            /\ UNCHANGED <<tasks, products, inventory, customers, serial>>
      [] k = 3 ->
            /\ products' = {p \in products : p.id # input.id}
            /\ UNCHANGED <<tasks, inventory, customers, notifications, serial>>

\* The notifications first, as the other deletes have it
deleteInventoryStatement_notificationsFirst(input, k) ==
    CASE k = 1 ->
            /\ notifications' = {n \in notifications : ~deleteInventoryNotificationWhere(n, input)}
            /\ UNCHANGED <<tasks, products, inventory, customers, serial>>
      [] k = 2 ->
            /\ inventory' = {i \in inventory : i.id # input.id}
            /\ UNCHANGED <<tasks, products, customers, notifications, serial>>

\* deleteInventory: the inventory row, then the notifications
deleteInventoryStatement(input, k) ==
    CASE k = 1 ->
            /\ inventory' = {i \in inventory : i.id # input.id}
            /\ UNCHANGED <<tasks, products, customers, notifications, serial>>
      [] k = 2 ->
            /\ notifications' = {n \in notifications : ~deleteInventoryNotificationWhere(n, input)}
            /\ UNCHANGED <<tasks, products, inventory, customers, serial>>

\* deleteCustomer: the notifications, then the customer
deleteCustomerStatement(input, k) ==
    CASE k = 1 ->
            /\ notifications' = {n \in notifications : ~deleteCustomerNotificationWhere(n, input)}
            /\ UNCHANGED <<tasks, products, inventory, customers, serial>>
      [] k = 2 ->
            /\ customers' = {c \in customers : c.id # input.id}
            /\ UNCHANGED <<tasks, products, inventory, notifications, serial>>

\* The number of statements of a delete
StatementsOf(op) == IF op = "deleteProduct" THEN 3 ELSE 2

Statement(op, input, k) ==
    CASE op = "deleteTask" -> deleteTaskStatement(input, k)
      [] op = "deleteProduct" -> deleteProductStatement(input, k)
      [] op = "deleteInventory" -> deleteInventoryStatement(input, k)
      [] op = "deleteCustomer" -> deleteCustomerStatement(input, k)

\* A delete is between two of its statements
Running == last.result = "pending"

\* The call of a delete: its first statement
BeginDelete(op, input, t) ==
    /\ ~Running
    /\ now' = t
    /\ UNCHANGED inflight
    /\ Statement(op, input, 1)
    /\ last' = Call(op, input, "pending", 1)

\* The next statement of the running delete; after the last one it returns
ContinueDelete ==
    /\ Running
    /\ Statement(last.op, last.input, last.ret + 1)
    /\ last' = Call(last.op, last.input,
                    IF last.ret + 1 = StatementsOf(last.op) THEN "ok" ELSE "pending",
                    last.ret + 1)
    /\ UNCHANGED <<now, inflight>>

StatementCalls ==
    \/ \E input \in CreateTaskInputs({"pending"}, {"low", "urgent"}) :
            ~Running /\ createTask(input, now) /\ WithinBudget
    \/ \E input \in CreateProductInputs({"X1"}) :
            ~Running /\ createProduct(input, now) /\ WithinBudget
    \/ \E input \in CreateInventoryInputs(NextId("products"), {0, 1}) :
            ~Running /\ createInventory(input, now) /\ WithinBudget
    \/ \E input \in CreateCustomerInputs({"a@x"}) :
            ~Running /\ createCustomer(input, now) /\ WithinBudget
    \/ \E input \in EntityReferences :
            ~Running /\ createNotification(input, now) /\ WithinBudget
    \/ \E input \in DeleteInputs(NextId("tasks")) : BeginDelete("deleteTask", input, now)
    \/ \E input \in DeleteInputs(NextId("products")) : BeginDelete("deleteProduct", input, now)
    \/ \E input \in DeleteInputs(NextId("inventory")) : BeginDelete("deleteInventory", input, now)
    \/ \E input \in DeleteInputs(NextId("customers")) : BeginDelete("deleteCustomer", input, now)
    \/ ContinueDelete

NextStatement == StatementCalls

SpecStatement == Init /\ [][NextStatement]_vars

-----------------------------------------------------------------------------
(* Properties of the notification feed under every handler *)

InsertingHandlers ==
    {"createTask", "updateTask", "createInventory", "updateInventory", "createNotification"}

InsertedIds == Ids(notifications') \ Ids(notifications)

\* C10: every handler call inserts at most one notification, and only
\* createTask, updateTask, createInventory, updateInventory and
\* createNotification insert one; no other call adds a notification.
C10_AtMostOneInsert ==
    [][/\ Cardinality(InsertedIds) <= 1
       /\ Cardinality(notifications') <= Cardinality(notifications) + 1
       /\ last'.op \notin InsertingHandlers =>
            /\ InsertedIds = {}
            /\ Cardinality(notifications') <= Cardinality(notifications)]_vars

\* A rule of updateInventory has just inserted its notification
C10_Witness ==
    /\ last.op = "updateInventory"
    /\ last.result = "ok"
    /\ \E n \in notifications :
        /\ n.id = NextId("notifications") - 1
        /\ n.entity_type = "inventory"
        /\ n.entity_id = last.ret.id
        /\ n.message[2] = " inventory is below minimum stock level. Current: "

unread(n) == n.read = FALSE

\* C6: in every reachable state getUnreadNotificationsCount() returns the
\* number of unread notifications among those getNotifications() returns.
C6_UnreadCountMatchesList ==
    /\ getNotificationsResults # {}
    /\ \A results \in getNotificationsResults :
        getUnreadNotificationsCountResult = Len(SelectSeq(results, unread))

\* The count was just read as 1 from a store that holds one read and one
\* unread notification
C6_Witness ==
    /\ last.op = "getUnreadNotificationsCount"
    /\ last.ret = 1
    /\ \E n \in notifications : n.read = TRUE
    /\ Cardinality(notifications) = 2

-----------------------------------------------------------------------------
(* The rules that insert notifications *)

\* The step inserts exactly the one notification n and touches no other
InsertsOnly(n) ==
    /\ n.id \notin Ids(notifications)
    /\ notifications' = notifications \cup {n}

\* C1: createTask inserts exactly one notification (type info, unread,
\* referring to the new task) when the created task's priority is high or
\* urgent, and leaves the notification store unchanged when it is low or medium.
C1_CreateTaskRule ==
    [][last'.op = "createTask" =>
        LET task == last'.ret
        IN /\ last'.result = "ok"
           /\ task.id \notin Ids(tasks)
           /\ task \in tasks'
           /\ IF task.priority \in {"high", "urgent"}
              THEN \E n \in notifications' :
                    /\ InsertsOnly(n)
                    /\ n.type = "info"
                    /\ n.read = FALSE
                    /\ n.entity_type = "task"
                    /\ n.entity_id = task.id
              ELSE /\ task.priority \in {"low", "medium"}
                   /\ notifications' = notifications]_vars

\* A second task, urgent, was just created and its notification is stored
C1_Witness ==
    /\ last.op = "createTask"
    /\ last.ret.priority = "urgent"
    /\ last.ret.id = 2
    /\ \E n \in notifications :
        /\ n.id = NextId("notifications") - 1
        /\ n.entity_type = "task" /\ n.entity_id = 2

\* C2: a successful updateTask inserts exactly one 'Task Completed'
\* notification (type success, unread, referring to the task) if and only if
\* the stored status was not completed before and is completed after; an
\* update of a completed task, one that leaves completed and one that omits
\* the status insert nothing.
C2_UpdateTaskRule ==
    [][(last'.op = "updateTask" /\ last'.result = "ok") =>
        LET id == last'.input.id
            before == TheRow(RowsById(tasks, id))
            after == TheRow(RowsById(tasks', id))
        IN /\ RowsById(tasks, id) # {} /\ RowsById(tasks', id) = {last'.ret}
           /\ IF before.status # "completed" /\ after.status = "completed"
              THEN \E n \in notifications' :
                    /\ InsertsOnly(n)
                    /\ n.title = <<"Task Completed">>
                    /\ n.type = "success"
                    /\ n.read = FALSE
                    /\ n.entity_type = "task"
                    /\ n.entity_id = id
              ELSE notifications' = notifications
           /\ (before.status = "completed" \/ ~Has(last'.input, "status")
                    \/ after.status # "completed")
                => notifications' = notifications]_vars

\* A task was completed, reopened and completed again: the last update
\* inserted the second of its two notifications
C2_Witness ==
    /\ last.op = "updateTask"
    /\ last.result = "ok"
    /\ Field(last.input, "status") = "completed"
    /\ Cardinality({n \in notifications :
            /\ n.title = <<"Task Completed">>
            /\ n.entity_id = last.input.id}) = 2
    /\ \E n \in notifications :
        n.id = NextId("notifications") - 1 /\ n.entity_id = last.input.id

LowStockAlertFor(n, inv) ==
    /\ InsertsOnly(n)
    /\ n.title = <<"Low Stock Alert">>
    /\ n.type = "warning"
    /\ n.entity_type = "inventory"
    /\ n.entity_id = inv.id

\* C3: a successful createInventory or updateInventory inserts exactly one
\* 'Low Stock Alert' (type warning, referring to the inventory row) if and
\* only if the post-state quantity is below the post-state min_stock_level,
\* each being the supplied value if present and the stored one otherwise;
\* with quantity at or above the minimum nothing is inserted.
C3_LowStockRule ==
    [][/\ (last'.op = "createInventory" /\ last'.result = "ok") =>
            LET inv == last'.ret
            IN /\ inv \in inventory' /\ inv.id \notin Ids(inventory)
               /\ inv.quantity = last'.input.quantity
               /\ inv.min_stock_level = last'.input.min_stock_level
               /\ IF inv.quantity < inv.min_stock_level
                  THEN \E n \in notifications' : LowStockAlertFor(n, inv)
                  ELSE notifications' = notifications
       /\ (last'.op = "updateInventory" /\ last'.result = "ok") =>
            LET input == last'.input
                before == TheRow(RowsById(inventory, input.id))
                inv == last'.ret
            IN /\ RowsById(inventory, input.id) # {}
               /\ RowsById(inventory', input.id) = {inv}
               /\ inv.quantity =
                    IF Has(input, "quantity") THEN input.quantity ELSE before.quantity
               /\ inv.min_stock_level =
                    IF Has(input, "min_stock_level") THEN input.min_stock_level
                    ELSE before.min_stock_level
               /\ IF inv.quantity < inv.min_stock_level
                  THEN \E n \in notifications' : LowStockAlertFor(n, inv)
                  ELSE notifications' = notifications]_vars

\* An update that supplied only a higher minimum has just put the row
\* below it, and the alert states the merged values
C3_Witness ==
    /\ last.op = "updateInventory"
    /\ last.result = "ok"
    /\ DOMAIN last.input = {"id", "min_stock_level"}
    /\ last.ret.quantity < last.ret.min_stock_level
    /\ \E n \in notifications :
        /\ n.id = NextId("notifications") - 1
        /\ n.entity_type = "inventory" /\ n.entity_id = last.ret.id
        /\ n.message[3] = last.ret.quantity
        /\ n.message[5] = last.input.min_stock_level

-----------------------------------------------------------------------------
(* The cascade of the deletes *)

DeleteHandlers == {"deleteTask", "deleteProduct", "deleteInventory", "deleteCustomer"}

EntityTypeOf(op) ==
    CASE op = "deleteTask" -> "task"
      [] op = "deleteProduct" -> "product"
      [] op = "deleteInventory" -> "inventory"
      [] op = "deleteCustomer" -> "customer"

TableOf(op) ==
    CASE op = "deleteTask" -> tasks
      [] op = "deleteProduct" -> products
      [] op = "deleteInventory" -> inventory
      [] op = "deleteCustomer" -> customers

RefersTo(n, type, id) == n.entity_type = type /\ n.entity_id = id

\* C4: after a delete of a task, product, inventory row or customer returns,
\* the entity is absent from its store and no stored notification refers to
\* (its entity type, its id).
C4_DeleteCascades ==
    last.op \in DeleteHandlers =>
        /\ last.result = "ok"
        /\ last.input.id \notin Ids(TableOf(last.op))
        /\ \A n \in notifications : ~RefersTo(n, EntityTypeOf(last.op), last.input.id)

\* The first inventory row, which had a low-stock alert, was just deleted:
\* the product remains and no notification does
C4_Witness ==
    /\ last.op = "deleteInventory"
    /\ last.input.id = 1
    /\ NextId("inventory") = 2
    /\ NextId("notifications") = 2
    /\ products # {}
    /\ inventory = {}
    /\ notifications = {}

\* C5: a delete removes no notification other than those that refer to
\* (its entity type, its id); all others stay stored, unchanged.
C5_DeleteTouchesNoOther ==
    [][last'.op \in DeleteHandlers =>
        \A n \in notifications :
            ~RefersTo(n, EntityTypeOf(last'.op), last'.input.id) => n \in notifications']_vars

-----------------------------------------------------------------------------
(* Marking notifications read *)

C9_MarkAllRead ==
    [][last'.op = "markAllNotificationsRead" =>
        /\ last'.result = "ok"
        /\ \A n \in notifications' : n.read = TRUE
        /\ getUnreadNotificationsCountResult' = 0
        /\ notifications' = {[n EXCEPT !.read = TRUE] : n \in notifications}
        /\ Ids(notifications') = Ids(notifications)
        /\ Cardinality(notifications') = Cardinality(notifications)
        /\ notifications = {} => notifications' = {}]_vars

\* Three notifications, one of them older than the call, were just all
\* marked read
C9_Witness ==
    /\ last.op = "markAllNotificationsRead"
    /\ Cardinality(notifications) = 3
    /\ \A n \in notifications : n.read = TRUE
    /\ \E n \in notifications : n.created_at < now

-----------------------------------------------------------------------------
(* The life of a stored notification *)

Before_(table, id) == TheRow(RowsById(table, id))

\* The stored row with id i, before and after the step
Before(i) == TheRow(RowsById(notifications, i))
After(i) == TheRow(RowsById(notifications', i))
Kept == Ids(notifications) \cap Ids(notifications')

\* C11: once a notification is stored, its id, title, message, type,
\* entity_type, entity_id and created_at never change under any handler call;
\* read is the only field of a stored notification that a call modifies, and
\* the id of a removed notification is never given to a new one.
C11_OnlyReadChanges ==
    [][/\ \A i \in Kept :
            /\ Cardinality(RowsById(notifications', i)) = 1
            /\ [After(i) EXCEPT !.read = Before(i).read] = Before(i)
       /\ \A i \in InsertedIds : i >= NextId("notifications")]_vars

\* A low-stock alert of an earlier clock reading was marked read and has
\* since survived the delete of a task
C11_Witness ==
    /\ last.op = "deleteTask"
    /\ \E n \in notifications :
        /\ n.title = <<"Low Stock Alert">>
        /\ n.read = TRUE
        /\ n.created_at < now

\* C12: in every reachable state every stored notification has entity_type
\* and entity_id either both null or both non-null, whatever the inputs of the
\* calls, createNotification included.
C12_EntityReferencePaired ==
    \A n \in notifications : (n.entity_type = NULL) <=> (n.entity_id = NULL_INT)

\* C13: every notification is inserted with read = false, by one of
\* createNotification, createTask, updateTask, createInventory and
\* updateInventory; its read flag goes from false to true only in a
\* markNotificationRead call for its id or a markAllNotificationsRead call,
\* and never from true back to false.
C13_ReadLifecycle ==
    [][/\ \A i \in InsertedIds :
            /\ After(i).read = FALSE
            /\ last'.op \in InsertingHandlers
       /\ \A i \in Kept :
            /\ Before(i).read = TRUE => After(i).read = TRUE
            /\ (Before(i).read = FALSE /\ After(i).read = TRUE) =>
                    \/ last'.op = "markNotificationRead" /\ last'.input.id = i
                    \/ last'.op = "markAllNotificationsRead"]_vars

\* The notification of a completed task was just marked read by its id,
\* while the one of the task's creation is still unread
C13_Witness ==
    /\ last.op = "markNotificationRead"
    /\ last.result = "ok"
    /\ last.ret.title = <<"Task Completed">>
    /\ last.ret \in notifications
    /\ last.ret.read = TRUE
    /\ \E n \in notifications : n.id < last.ret.id /\ n.read = FALSE

-----------------------------------------------------------------------------
(* Uniqueness of Product.sku and Customer.email *)

Stores == <<tasks, products, inventory, customers, notifications, serial>>

\* C14: under createProduct, updateProduct and deleteProduct calls made one
\* at a time no two stored products have the same sku (exact match); a
\* createProduct whose sku a stored product holds fails with a conflict,
\* inserts nothing, and getProductById still returns the earlier product
\* unchanged.
C14_SkuUnique ==
    [][/\ \A p, q \in products' : p.sku = q.sku => p.id = q.id
       /\ (last'.op = "createProduct"
                /\ \E p \in products : p.sku = last'.input.sku) =>
            /\ last'.result = "conflict"
            /\ products' = products
            /\ serial' = serial
            /\ \A p \in products :
                    p.sku = last'.input.sku => getProductByIdResult(p.id)' = productResult(p)]_vars

\* A createProduct has just failed on the sku of the first product, while a
\* second product holds the same letters in the other case
C14_Witness ==
    /\ last.op = "createProduct"
    /\ last.result = "conflict"
    /\ Cardinality(products) = 2
    /\ \E p \in products : p.id = 1 /\ p.sku = last.input.sku
    /\ {p.sku : p \in products} = Skus

\* C15: under createCustomer, updateCustomer and deleteCustomer calls made
\* one at a time no two stored customers have the same email; a
\* createCustomer whose email a stored customer holds fails with a conflict
\* and leaves the customer store unchanged.
C15_EmailUnique ==
    [][/\ \A c, d \in customers' : c.email = d.email => c.id = d.id
       /\ (last'.op = "createCustomer"
                /\ \E c \in customers : c.email = last'.input.email) =>
            /\ last'.result = "conflict"
            /\ customers' = customers
            /\ serial' = serial]_vars

\* A createCustomer has just failed on an email that the second customer
\* took over from the deleted first one
C15_Witness ==
    /\ last.op = "createCustomer"
    /\ last.result = "conflict"
    /\ Ids(customers) = {2}
    /\ \E c \in customers : c.email = last.input.email /\ c.updated_at > c.created_at

\* C16: an updateProduct (updateCustomer) that supplies a sku (email) held
\* by a different record fails with a conflict and changes no stored record,
\* not even the target's update timestamp; one that supplies the target's
\* own current sku (email) is no conflict and succeeds.
C16_UpdateRevalidates ==
    [][/\ (last'.op = "updateProduct" /\ Has(last'.input, "sku")
                /\ RowsById(products, last'.input.id) # {}) =>
            LET target == Before_(products, last'.input.id)
            IN /\ (\E p \in products : p.id # target.id /\ p.sku = last'.input.sku) =>
                    /\ last'.result = "conflict"
                    /\ Stores' = Stores
               /\ target.sku = last'.input.sku =>
                    /\ last'.result = "ok"
                    /\ products' = (products \ {target})
                            \cup {[target EXCEPT !.updated_at = now']}
                    /\ last'.ret = productResult([target EXCEPT !.updated_at = now'])
       /\ (last'.op = "updateCustomer" /\ Has(last'.input, "email")
                /\ RowsById(customers, last'.input.id) # {}) =>
            LET target == Before_(customers, last'.input.id)
            IN /\ (\E c \in customers : c.id # target.id /\ c.email = last'.input.email) =>
                    /\ last'.result = "conflict"
                    /\ Stores' = Stores
               /\ target.email = last'.input.email =>
                    /\ last'.result = "ok"
                    /\ customers' = (customers \ {target})
                            \cup {[target EXCEPT !.updated_at = now']}
                    /\ last'.ret = [target EXCEPT !.updated_at = now']]_vars

\* An update of a customer to its own email has just succeeded at a later
\* clock reading, next to another customer
C16_WitnessOwn ==
    /\ last.op = "updateCustomer"
    /\ last.result = "ok"
    /\ Cardinality(customers) = 2
    /\ Has(last.input, "email")
    /\ last.ret.email = last.input.email
    /\ last.ret.updated_at > last.ret.created_at
    /\ last.ret \in customers

\* An update of a product to the sku of another one has just failed, at a
\* later clock reading than the target's creation
C16_Witness ==
    /\ last.op = "updateProduct"
    /\ last.result = "conflict"
    /\ \E p \in products : p.id # last.input.id /\ p.sku = last.input.sku
    /\ \E p \in products : p.id = last.input.id /\ p.updated_at < now

-----------------------------------------------------------------------------
(* Updates and deletes of absent ids *)

UpdateHandlers == {"updateTask", "updateProduct", "updateInventory", "updateCustomer"}

UpdatedTable(op) ==
    CASE op = "updateTask" -> tasks
      [] op = "updateProduct" -> products
      [] op = "updateInventory" -> inventory
      [] op = "updateCustomer" -> customers

\* C17: updateTask, updateProduct, updateInventory and updateCustomer with an
\* id absent from their store fail with a not-found error and leave every
\* store unchanged: no record created or modified, no notification inserted,
\* also when the input matches a rule (status = completed, quantity below
\* min_stock_level).
C17_UpdateNotFound ==
    [][(last'.op \in UpdateHandlers
            /\ last'.input.id \notin Ids(UpdatedTable(last'.op))) =>
        /\ last'.result = "not_found"
        /\ Stores' = Stores]_vars

\* An updateInventory for the id of a deleted row, with a quantity below
\* the minimum it supplies, has just failed next to a stored row
C17_Witness ==
    /\ last.op = "updateInventory"
    /\ last.result = "not_found"
    /\ Has(last.input, "quantity") /\ Has(last.input, "min_stock_level")
    /\ last.input.quantity < last.input.min_stock_level
    /\ last.input.id < NextId("inventory") - 1
    /\ inventory # {}

\* An updateTask to completed for an id that no task has has just failed
C17_WitnessTask ==
    /\ last.op = "updateTask"
    /\ last.result = "not_found"
    /\ Field(last.input, "status") = "completed"
    /\ tasks # {}

EntityStores == <<tasks, products, inventory, customers>>

\* C18: the four deletes are idempotent: a call with an id for which no
\* entity exists completes without error and removes no entity, and the same
\* delete called twice in a row leaves all entity stores and the notification
\* store as the first call left them.
C18_DeleteIdempotent ==
    [][last'.op \in DeleteHandlers =>
        /\ last'.result = "ok"
        /\ last'.input.id \notin Ids(TableOf(last'.op)) => EntityStores' = EntityStores
        /\ (last.op = last'.op /\ last.input = last'.input) => Stores' = Stores]_vars

\* The second half of C18 alone: the same delete called twice in a row
DeleteTwiceChangesNothing ==
    [][(last'.op \in DeleteHandlers /\ last.op = last'.op /\ last.input = last'.input) =>
        /\ last'.result = "ok"
        /\ Stores' = Stores]_vars

-----------------------------------------------------------------------------
(* The order of the statements of a delete *)

\* The store of a delete after the step
TableAfter(op) ==
    CASE op = "deleteTask" -> tasks'
      [] op = "deleteProduct" -> products'
      [] op = "deleteInventory" -> inventory'
      [] op = "deleteCustomer" -> customers'

\* The step removes the entity that the running delete is for
RemovesItsEntity ==
    /\ last'.op \in DeleteHandlers
    /\ last'.input.id \in Ids(TableOf(last'.op))
    /\ last'.input.id \notin Ids(TableAfter(last'.op))

\* C19: in each of the four deletes the notifications that refer to the
\* entity are removed before, or in the same atomic step as, the entity
\* itself: no delete passes through a state in which the entity is removed
\* while its matching notifications are still stored.
C19_NotificationsBeforeEntity ==
    [][RemovesItsEntity =>
        \A n \in notifications' :
            ~RefersTo(n, EntityTypeOf(last'.op), last'.input.id)]_vars

\* The statements of a delete, run to the end, amount to the delete of the
\* call-at-a-time specifications: entity and matching notifications are gone
StatementsCascade ==
    (last.op \in DeleteHandlers /\ last.result = "ok") =>
        /\ last.ret = StatementsOf(last.op)
        /\ last.input.id \notin Ids(TableOf(last.op))
        /\ \A n \in notifications : ~RefersTo(n, EntityTypeOf(last.op), last.input.id)

-----------------------------------------------------------------------------
(* Inventory rows whose product is not stored *)

\* C20: updateInventory on an inventory row whose product_id matches no
\* stored product still succeeds and persists the update; when the resulting
\* quantity is below the resulting minimum it inserts exactly one Low Stock
\* Alert whose product name is the placeholder 'Unknown Product'.  The
\* unresolved product never makes the update fail or be rolled back.
C20_UnknownProduct ==
    [][(/\ last'.op = "updateInventory"
        /\ RowsById(inventory, last'.input.id) # {}
        /\ RowsById(products, Patch(last'.input, "product_id",
                Before_(inventory, last'.input.id).product_id)) = {}) =>
        LET input == last'.input
            before == Before_(inventory, input.id)
            inv == last'.ret
        IN /\ last'.result = "ok"
           /\ inv = [id |-> before.id,
                     product_id |-> Patch(input, "product_id", before.product_id),
                     quantity |-> Patch(input, "quantity", before.quantity),
                     min_stock_level |-> Patch(input, "min_stock_level", before.min_stock_level),
                     max_stock_level |-> Patch(input, "max_stock_level", before.max_stock_level),
                     location |-> Patch(input, "location", before.location),
                     last_updated |-> now']
           /\ inventory' = (inventory \ {before}) \cup {inv}
           /\ IF inv.quantity < inv.min_stock_level
              THEN \E n \in notifications' :
                    /\ LowStockAlertFor(n, inv)
                    /\ n.message[1] = "Unknown Product"
                    /\ n.read = FALSE
              ELSE notifications' = notifications]_vars

\* A row that an earlier update had moved to a product id that no product
\* has was just updated to a quantity below its minimum, and the alert
\* carries the placeholder
C20_Witness ==
    /\ last.op = "updateInventory"
    /\ last.result = "ok"
    /\ ~Has(last.input, "product_id")
    /\ last.ret \in inventory
    /\ last.ret.product_id \notin Ids(products)
    /\ last.ret.quantity < last.ret.min_stock_level
    /\ \E n \in notifications :
        /\ n.id = NextId("notifications") - 1
        /\ n.entity_type = "inventory" /\ n.entity_id = last.ret.id
        /\ n.message[1] = "Unknown Product"

C22_CreateNeedsProduct ==
    [][(last'.op = "createInventory"
            /\ RowsById(products, last'.input.product_id) = {}) =>
        /\ last'.result = "error"
        /\ last'.ret = NULL
        /\ inventory' = inventory
        /\ notifications' = notifications
        /\ serial' = serial]_vars

\* A create with quantity below the minimum for the id of a deleted product
\* has just failed, while another product is stored
C22_Witness ==
    /\ last.op = "createInventory"
    /\ last.result = "error"
    /\ last.input.quantity < last.input.min_stock_level
    /\ last.input.product_id < NextId("products") - 1
    /\ products # {}
    /\ last.input.product_id \notin Ids(products)

-----------------------------------------------------------------------------
(* The order of the notification feed *)

\* The list holds every stored notification exactly once
ListsAllOnce(results) ==
    /\ Len(results) = Cardinality(notifications)
    /\ {results[i] : i \in DOMAIN results} = notifications

\* Most recent first
NewestFirst(results) ==
    \A i, j \in DOMAIN results : i < j => results[i].created_at >= results[j].created_at

\* Among equal created_at, the notification inserted first comes first
TiesByInsertion(results) ==
    \A i, j \in DOMAIN results :
        (i < j /\ results[i].created_at = results[j].created_at) =>
            results[i].id < results[j].id

\* C23: getNotifications() returns every stored notification exactly once,
\* ordered by created_at descending; notifications with equal created_at are
\* ordered among themselves by insertion order.
C23_GetNotificationsOrder ==
    last.op = "getNotifications" =>
        /\ ListsAllOnce(last.ret)
        /\ NewestFirst(last.ret)
        /\ TiesByInsertion(last.ret)

\* The part of C23 that does not depend on the order of ties
GetNotificationsNewestFirst ==
    last.op = "getNotifications" => ListsAllOnce(last.ret) /\ NewestFirst(last.ret)

-----------------------------------------------------------------------------
(* What an update changes *)

BusinessFields(op) ==
    CASE op = "updateTask" -> {"title", "description", "status", "priority", "due_date"}
      [] op = "updateProduct" -> {"name", "description", "price", "sku", "category"}
      [] op = "updateInventory" ->
            {"product_id", "quantity", "min_stock_level", "max_stock_level", "location"}
      [] op = "updateCustomer" -> {"name", "email", "phone", "address", "company", "status"}

UpdateTimestamp(op) == IF op = "updateInventory" THEN "last_updated" ELSE "updated_at"

UpdatedTableAfter(op) ==
    CASE op = "updateTask" -> tasks'
      [] op = "updateProduct" -> products'
      [] op = "updateInventory" -> inventory'
      [] op = "updateCustomer" -> customers'

\* The value a column holds after `v` is written to it
ColumnValue(f, v) == IF f = "price" THEN numericColumn(v) ELSE v

OtherRows(table, id) == {r \in table : r.id # id}

\* C24: a successful updateTask, updateProduct, updateInventory or
\* updateCustomer changes exactly the business fields supplied in the input
\* (a field supplied as null is stored as null, an omitted field keeps its
\* stored value), never changes the record's id or created_at, changes no
\* other record, and always sets updated_at / last_updated to the current
\* time, also when no business field differs from the stored one.
C24_UpdateFrame ==
    [][(last'.op \in UpdateHandlers /\ last'.result = "ok") =>
        LET op == last'.op
            input == last'.input
            old == Before_(UpdatedTable(op), input.id)
            new == TheRow(RowsById(UpdatedTableAfter(op), input.id))
        IN /\ \A f \in BusinessFields(op) :
                  new[f] = IF Has(input, f) THEN ColumnValue(f, input[f]) ELSE old[f]
           /\ new.id = old.id
           /\ op # "updateInventory" => new.created_at = old.created_at
           /\ new[UpdateTimestamp(op)] = now'
           /\ OtherRows(UpdatedTableAfter(op), input.id) = OtherRows(UpdatedTable(op), input.id)
           /\ \A other \in UpdateHandlers \ {op} :
                  UpdatedTableAfter(other) = UpdatedTable(other)
           /\ notifications \subseteq notifications'
           /\ last'.ret.id = input.id]_vars

\* An updateTask that supplied description as null and omitted due_date has
\* just succeeded at a later time than the create, next to another task
C24_Witness ==
    /\ last.op = "updateTask"
    /\ last.result = "ok"
    /\ Has(last.input, "description") /\ ~Has(last.input, "due_date")
    /\ \E r \in tasks :
           /\ r.id = last.input.id
           /\ r.description = NULL
           /\ r.due_date = 1
           /\ r.updated_at > r.created_at
    /\ Cardinality(tasks) = 2

\* An updateCustomer that supplied the id alone has just refreshed updated_at
C24_WitnessNoField ==
    /\ last.op = "updateCustomer"
    /\ last.result = "ok"
    /\ DOMAIN last.input = {"id"}
    /\ \E r \in customers :
           /\ r.id = last.input.id
           /\ r.phone = "1"
           /\ r.updated_at = now
           /\ r.updated_at > r.created_at

-----------------------------------------------------------------------------
(* Reads by id *)

GetByIdHandlers == {"getTaskById", "getProductById", "getInventoryById", "getCustomerById"}

GetByIdStore(op) ==
    CASE op = "getTaskById" -> tasks
      [] op = "getProductById" -> products
      [] op = "getInventoryById" -> inventory
      [] op = "getCustomerById" -> customers

\* The rows the handler's query selects
GetByIdResults(op, id) ==
    IF op = "getInventoryById"
    THEN {r[1] : r \in getInventoryByIdResults(id)}
    ELSE RowsById(GetByIdStore(op), id)

\* The stored record as the handler returns it
Returned(op, row) == IF op = "getProductById" THEN productResult(row) ELSE row

\* C25: getTaskById, getProductById, getInventoryById and getCustomerById
\* return null exactly when no record with that id is stored in the entity's
\* own store, and otherwise the stored record with that id, whatever the
\* other stores hold.
C25_GetByIdOwnStore ==
    last.op \in GetByIdHandlers =>
        LET stored == RowsById(GetByIdStore(last.op), last.input)
        IN /\ (GetByIdResults(last.op, last.input) = {}) <=> (stored = {})
           /\ stored # {} => last.ret = Returned(last.op, TheRow(stored))

-----------------------------------------------------------------------------
(* deleteProduct and the inventory rows *)

\* C26: after deleteProduct(id) returns, no inventory row with
\* product_id = id remains stored, while products with other ids and
\* inventory rows whose product_id differs from id are unchanged.
C26_DeleteProductInventory ==
    [][last'.op = "deleteProduct" =>
        LET id == last'.input.id
        IN /\ {i \in inventory' : i.product_id = id} = {}
           /\ {p \in products' : p.id # id} = {p \in products : p.id # id}
           /\ {i \in inventory' : i.product_id # id} = {i \in inventory : i.product_id # id}]_vars

\* deleteProduct has just removed a product that had an inventory row with
\* another id than the product's, next to another product and its row
C26_Witness ==
    /\ last.op = "deleteProduct"
    /\ last.input.id \notin Ids(products)
    /\ NextId("inventory") = 3
    /\ \E i \in inventory : i.id = last.input.id /\ i.product_id \in Ids(products)
    /\ Cardinality(inventory) = 1

-----------------------------------------------------------------------------
(* Notifications and the entities they refer to *)

StoreOfType(type) ==
    CASE type = "task" -> tasks
      [] type = "product" -> products
      [] type = "inventory" -> inventory
      [] type = "customer" -> customers

\* C27: after any sequence of handler calls, one at a time and without
\* createNotification, every stored notification refers by its
\* (entity_type, entity_id) to an entity that exists in the store named by
\* entity_type: no rule-generated notification outlives its entity, also when
\* the entity is an inventory row removed as part of deleteProduct.
C27_NoOrphanNotification ==
    \A n \in notifications :
        n.entity_type # NULL => n.entity_id \in Ids(StoreOfType(n.entity_type))

-----------------------------------------------------------------------------
(* Inventory rows and their products *)

\* C28: after any sequence of createProduct, deleteProduct, createInventory,
\* updateInventory and deleteInventory calls, one at a time, every stored
\* inventory row's product_id identifies a stored product, so that every
\* stored inventory row is returned by getInventory() without filters and by
\* getInventoryById, which join inventory with products.
C28_InventoryHasProduct ==
    \A i \in inventory :
        /\ i.product_id \in Ids(products)
        /\ i \in {r[1] : r \in inventoryJoinProducts}
        /\ i \in {r[1] : r \in getInventoryByIdResults(i.id)}

-----------------------------------------------------------------------------
(* Creates and updates one database statement at a time, by requests that *)
(* run at the same time.  Each step is one awaited statement with the     *)
(* synchronous code that follows it.                                       *)

Idle(r) == inflight[r].op = "none"

At(r, op, pc) == inflight[r].op = op /\ inflight[r].pc = pc

\* The call of a handler and its first select
Select(r, op, input, rows) ==
    /\ Idle(r)
    /\ inflight' = [inflight EXCEPT ![r] =
            [op |-> op, input |-> input, pc |-> 1, local |-> rows, result |-> {}]]
    /\ UNCHANGED <<tasks, products, inventory, customers, notifications, serial, now, last>>

\* A further statement has run
Await(r, local, result) ==
    inflight' = [inflight EXCEPT ![r] =
        [@ EXCEPT !.pc = @ + 1, !.local = local, !.result = result]]

\* The handler returns or throws
Return(r, result, ret) ==
    /\ last' = Call(inflight[r].op, inflight[r].input, result, ret)
    /\ inflight' = [inflight EXCEPT ![r] = NoCall]

\* createProduct: select existingProduct
createProductSelect(r, input) == Select(r, "createProduct", input, existingProduct(input))

\* createProduct: throw if the select found a row, else insert and return
createProductInsert(r) ==
    /\ At(r, "createProduct", 1)
    /\ LET input == inflight[r].input
           product == insertedProduct(input, now)
       IN IF inflight[r].local # {}
          THEN /\ Return(r, "conflict", NULL)
               /\ UNCHANGED <<products, serial>>
          ELSE /\ products' = products \cup {product}
               /\ serial' = Bump({"products"})
               /\ Return(r, "ok", productResult(product))
    /\ UNCHANGED <<tasks, inventory, customers, notifications, now>>

\* updateProduct: select existingProducts
updateProductSelect(r, input) ==
    Select(r, "updateProduct", input, RowsById(products, input.id))

\* updateProduct: UPDATE ... WHERE id = input.id RETURNING, and the return
updateProductUpdate(r) ==
    LET input == inflight[r].input
        rows == RowsById(products, input.id)
    IN IF rows = {}
       THEN /\ Return(r, "error", NULL)
            /\ UNCHANGED products
       ELSE LET product == updateProductRow(input, TheRow(rows), now)
            IN /\ products' = (products \ rows) \cup {product}
               /\ Return(r, "ok", productResult(product))

\* updateProduct: throw if no product has the id; select skuConflicts if the
\* input has a sku, else update
updateProductConflicts(r) ==
    /\ At(r, "updateProduct", 1)
    /\ LET input == inflight[r].input
       IN IF inflight[r].local = {}
          THEN /\ Return(r, "not_found", NULL)
               /\ UNCHANGED products
          ELSE IF Has(input, "sku") /\ input.sku # ""
          THEN /\ Await(r, skuConflicts(input), {})
               /\ UNCHANGED <<products, last>>
          ELSE updateProductUpdate(r)
    /\ UNCHANGED <<tasks, inventory, customers, notifications, serial, now>>

\* updateProduct: throw if the select found a conflict, else update
updateProductWrite(r) ==
    /\ At(r, "updateProduct", 2)
    /\ IF inflight[r].local # {}
       THEN /\ Return(r, "conflict", NULL)
            /\ UNCHANGED products
       ELSE updateProductUpdate(r)
    /\ UNCHANGED <<tasks, inventory, customers, notifications, serial, now>>

\* createCustomer: select existingCustomer
createCustomerSelect(r, input) == Select(r, "createCustomer", input, existingCustomer(input))

\* createCustomer: throw if the select found a row, else insert and return
createCustomerInsert(r) ==
    /\ At(r, "createCustomer", 1)
    /\ LET input == inflight[r].input
           customer == insertedCustomer(input, now)
       IN IF inflight[r].local # {}
          THEN /\ Return(r, "conflict", NULL)
               /\ UNCHANGED <<customers, serial>>
          ELSE /\ customers' = customers \cup {customer}
               /\ serial' = Bump({"customers"})
               /\ Return(r, "ok", customer)
    /\ UNCHANGED <<tasks, products, inventory, notifications, now>>

\* updateCustomer: select existingCustomers
updateCustomerSelect(r, input) ==
    Select(r, "updateCustomer", input, RowsById(customers, input.id))

\* updateCustomer: UPDATE ... WHERE id = input.id RETURNING, and the return
updateCustomerUpdate(r) ==
    LET input == inflight[r].input
        rows == RowsById(customers, input.id)
    IN IF rows = {}
       THEN /\ Return(r, "ok", UNDEFINED)
            /\ UNCHANGED customers
       ELSE LET customer == updateCustomerRow(input, TheRow(rows), now)
            IN /\ customers' = (customers \ rows) \cup {customer}
               /\ Return(r, "ok", customer)

\* updateCustomer: throw if no customer has the id; select emailConflicts if
\* the input has an email, else update
updateCustomerConflicts(r) ==
    /\ At(r, "updateCustomer", 1)
    /\ LET input == inflight[r].input
       IN IF inflight[r].local = {}
          THEN /\ Return(r, "not_found", NULL)
               /\ UNCHANGED customers
          ELSE IF Has(input, "email")
          THEN /\ Await(r, emailConflicts(input), {})
               /\ UNCHANGED <<customers, last>>
          ELSE updateCustomerUpdate(r)
    /\ UNCHANGED <<tasks, products, inventory, notifications, serial, now>>

\* updateCustomer: throw if the select found a conflict, else update
updateCustomerWrite(r) ==
    /\ At(r, "updateCustomer", 2)
    /\ IF inflight[r].local # {}
       THEN /\ Return(r, "conflict", NULL)
            /\ UNCHANGED customers
       ELSE updateCustomerUpdate(r)
    /\ UNCHANGED <<tasks, products, inventory, notifications, serial, now>>

\* Updates that set the sku, the email
SetSkuInputs(max, skus) == [id : 1..max, sku : skus]

SetEmailInputs(max, emails) == [id : 1..max, email : emails]

RaceCalls ==
    \/ \E r \in Requests, input \in CreateProductInputs(Skus) : createProductSelect(r, input)
    \/ \E r \in Requests : createProductInsert(r) /\ WithinBudget
    \/ \E r \in Requests, input \in SetSkuInputs(NextId("products") - 1, Skus) :
            updateProductSelect(r, input)
    \/ \E r \in Requests : updateProductConflicts(r)
    \/ \E r \in Requests : updateProductWrite(r)
    \/ \E r \in Requests, input \in CreateCustomerInputs(Emails) : createCustomerSelect(r, input)
    \/ \E r \in Requests : createCustomerInsert(r) /\ WithinBudget
    \/ \E r \in Requests, input \in SetEmailInputs(NextId("customers") - 1, Emails) :
            updateCustomerSelect(r, input)
    \/ \E r \in Requests : updateCustomerConflicts(r)
    \/ \E r \in Requests : updateCustomerWrite(r)

NextRace == RaceCalls

SpecRace == Init /\ [][NextRace]_vars

-----------------------------------------------------------------------------
(* updateTask one database statement at a time *)

\* updateTask: select existingTasks
updateTaskSelect(r, input) == Select(r, "updateTask", input, RowsById(tasks, input.id))

\* updateTask: throw if no task has the id, else UPDATE ... WHERE id =
\* input.id RETURNING
updateTaskUpdate(r) ==
    /\ At(r, "updateTask", 1)
    /\ LET input == inflight[r].input
           rows == RowsById(tasks, input.id)
           result == {updateTaskRow(input, row, now) : row \in rows}
       IN IF inflight[r].local = {}
          THEN /\ Return(r, "not_found", NULL)
               /\ UNCHANGED tasks
          ELSE /\ tasks' = (tasks \ rows) \cup result
               /\ Await(r, inflight[r].local, result)
               /\ UNCHANGED last
    /\ UNCHANGED <<products, inventory, customers, notifications, serial, now>>

\* updateTask: insert the notification if the input completes a task that
\* the select saw as not completed, and return
updateTaskNotify(r) ==
    /\ At(r, "updateTask", 2)
    /\ LET input == inflight[r].input
           currentTask == TheRow(inflight[r].local)
       IN IF updateTaskNotifies(input, currentTask)
          THEN IF inflight[r].result = {}
               THEN /\ Return(r, "error", NULL)
                    /\ UNCHANGED <<notifications, serial>>
               ELSE LET updatedTask == TheRow(inflight[r].result)
                    IN /\ notifications' = notifications \cup
                              {notificationRow(updateTaskNotification(updatedTask), now)}
                       /\ serial' = Bump({"notifications"})
                       /\ Return(r, "ok", updatedTask)
          ELSE /\ Return(r, "ok", IF inflight[r].result = {} THEN UNDEFINED
                                  ELSE TheRow(inflight[r].result))
               /\ UNCHANGED <<notifications, serial>>
    /\ UNCHANGED <<tasks, products, inventory, customers, now>>

\* Updates that complete a task, or change its title alone
CompleteTaskInputs(max) == [id : 1..max, status : {"completed"}] \cup [id : 1..max, title : {"B"}]

TaskRaceCalls ==
    \/ \E input \in CreateTaskInputs({"pending"}, {"low"}) : createTask(input, now) /\ WithinBudget
    \/ \E r \in Requests, input \in CompleteTaskInputs(NextId("tasks")) : updateTaskSelect(r, input)
    \/ \E r \in Requests : updateTaskUpdate(r)
    \/ \E r \in Requests : updateTaskNotify(r) /\ WithinBudget

NextTaskRace == TaskRaceCalls

SpecTaskRace == Init /\ [][NextTaskRace]_vars

\* C29: when two createProduct calls with the same sku (or a createProduct
\* and an updateProduct that sets that sku) run concurrently, interleaved at
\* the granularity of individual database statements, at most one of them
\* succeeds and no reachable state holds two products with the same sku; the
\* same holds for createCustomer / updateCustomer and email.
C29_ConcurrentUnique ==
    /\ \A p, q \in products : p.sku = q.sku => p.id = q.id
    /\ \A c, d \in customers : c.email = d.email => c.id = d.id

\* The 'Task Completed' notifications stored for a task
TaskCompletedFor(id) ==
    {n \in notifications :
        /\ n.title = <<"Task Completed">>
        /\ n.entity_type = "task"
        /\ n.entity_id = id}

\* C30: when several updateTask calls that set status = completed on the
\* same task run concurrently, interleaved at the granularity of individual
\* database statements, the number of 'Task Completed' notifications inserted
\* for the task equals the number of transitions of its stored status from
\* non-completed to completed: two racing completions of one pending task
\* insert one notification, not two.  Tasks are created pending and no update
\* takes a task out of completed, so a task makes at most one transition.
C30_OneNotificationPerCompletion ==
    \A task \in tasks :
        Cardinality(TaskCompletedFor(task.id)) <= IF task.status = "completed" THEN 1 ELSE 0

====
